---- MODULE Spec2Model ----
(***************************************************************************)
(* A model of the two B+ tree crates of data-structure-rs:                 *)
(*   unsafebplus  (src/unsafebplus/src/lib.rs): leaves stored inline in    *)
(*                the parent's Vec, chained by raw `*const LeafNode`       *)
(*                pointers;                                                *)
(*   bplus        (src/bplus/src/lib.rs): nodes behind Rc<RefCell<..>>,    *)
(*                leaves chained by Weak references.                       *)
(* Both trees are driven with the same sequence of inserts.                *)
(*                                                                         *)
(* Memory of unsafebplus.  A raw pointer to a leaf is the address of a     *)
(* slot of the heap buffer of the parent's `nodes` Vec: [buf, idx].  Every *)
(* InternalNode value carries the identity of its Vec buffer (`buf`), the  *)
(* Vec capacity, and `spare`: the bits left behind in the slots just past  *)
(* `len` by split_off (which moves the right half out bitwise and leaves   *)
(* the old bytes in place).  A pointer is valid when it addresses a slot   *)
(* below `len` of a buffer owned by the tree.                              *)
(***************************************************************************)
EXTENDS Integers, Sequences, FiniteSets, TLC

\* ------------------------------------------------------------- bounds
MaxCap == 3
MaxKey == 5
MaxInserts == 4
MaxInsertsOnly == 6

Caps == 0..MaxCap
Keys == 1..MaxKey

VARIABLES
    tree,       \* unsafebplus::BPlusTree { cap, node }
    nextBuf,    \* allocator: the identity the next Vec<NodePair> buffer gets
    rnode,      \* bplus::Node::Root(RootNode { cap, data })
    nextRc,     \* allocator: the identity the next Rc allocation gets
    panicked,   \* an unwrap() on None was reached: the program has aborted
    inserted,   \* history: the (key, value) pairs passed to insert, in order
    last        \* the last call and what it returned

vars == <<tree, nextBuf, rnode, nextRc, panicked, inserted, last>>

\* ------------------------------------------------------------ options
None == [kind |-> "None"]
Some(v) == [kind |-> "Some", value |-> v]

\* Pair<T> { key, value }
Pair(key, value) == [key |-> key, value |-> value]

\* ptr::null() / ptr::null_mut()
NULL == [buf |-> 0, idx |-> 0]
\* `node as *const _` for the leaf in slot idx of buffer buf
Addr(buf, idx) == [buf |-> buf, idx |-> idx]

\* ---------------------------------------------------------- Vec helpers
\* No sort at all: the sequence as the pushes left it, against which the
\* order within a node is tried.
PushOrder(s) == s

\* slice::sort_by_key(|p| p.key): a stable sort.
RECURSIVE SortByKey(_)
SortByKey(s) ==
    IF Len(s) <= 1 THEN s
    ELSE LET rest == SortByKey(SubSeq(s, 1, Len(s) - 1))
             x == s[Len(s)]
             p == Cardinality({i \in 1..Len(rest) : rest[i].key <= x.key})
         IN SubSeq(rest, 1, p) \o <<x>> \o SubSeq(rest, p + 1, Len(rest))

\* Two other split indices, len / 2 rounded up and (len - 1) / 2, against
\* which the properties of the split are tried.
SplitAtRoundedUp(s) == (Len(s) + 1) \div 2
SplitAtBelowHalf(s) == (Len(s) - 1) \div 2

\* The index Vec::split_off is called with: len / 2.
SplitAt(s) == Len(s) \div 2

\* iter().take_while(|pair| pair.key <= key).last(), as an index (0: None)
RECURSIVE TakeWhileLeLast(_, _, _)
TakeWhileLeLast(s, key, i) ==
    IF i < Len(s) /\ s[i + 1].key <= key THEN TakeWhileLeLast(s, key, i + 1) ELSE i

\* A routing by pair.key > key, against which the agreement of the two
\* crates is tried.
RECURSIVE TakeWhileGtLast(_, _, _)
TakeWhileGtLast(s, key, i) ==
    IF i < Len(s) /\ s[i + 1].key > key THEN TakeWhileGtLast(s, key, i + 1) ELSE i

\* iter().take_while(|pair| pair.key < key).last(), as an index (0: None)
RECURSIVE TakeWhileLtLast(_, _, _)
TakeWhileLtLast(s, key, i) ==
    IF i < Len(s) /\ s[i + 1].key < key THEN TakeWhileLtLast(s, key, i + 1) ELSE i

\* =====================================================================
\*                             unsafebplus
\* =====================================================================

\* LeafNode { cap, data, next }
LeafNode(cap, data, next) ==
    [kind |-> "Leaf", cap |-> cap, data |-> data, next |-> next]

\* InternalNode { cap, nodes } together with the Vec's buffer.
InternalNode(cap, nodes, buf, capacity, spare) ==
    [kind |-> "Internal", cap |-> cap, nodes |-> nodes,
     buf |-> buf, capacity |-> capacity, spare |-> spare]

\* BPlusTree::new
BPlusTreeNew(cap) == [cap |-> cap, node |-> None]

\* Node::min_key
MinKey(n) ==
    IF n.kind = "Internal"
    THEN IF n.nodes = <<>> THEN None ELSE Some(n.nodes[1].key)
    ELSE IF n.data = <<>> THEN None ELSE Some(n.data[1].key)

\* LeafNode::is_full
LeafIsFull(leaf) == Len(leaf.data) > leaf.cap

\* A fullness test one child late, against which the size bounds are tried.
InternalIsFullLate(self) == Len(self.nodes) > (self.cap + 2)

\* InternalNode::is_full
InternalIsFull(self) == Len(self.nodes) > (self.cap + 1)

\* A split that drops the first entry of the right half, against which the
\* keeping of the entries is tried.
LeafSplitDropping(leaf, at) ==
    [node |-> [leaf EXCEPT !.data = SubSeq(leaf.data, 1, at)],
     split |-> Some([kind |-> "Leaf", cap |-> leaf.cap,
                     data |-> SubSeq(leaf.data, at + 2, Len(leaf.data)),
                     next |-> leaf.next])]

\* LeafNode::split, splitting at index `at`: what stays, and the new right
\* sibling, which takes over self.next.
LeafSplit(leaf, at) ==
    [node |-> [leaf EXCEPT !.data = SubSeq(leaf.data, 1, at)],
     split |-> Some(LeafNode(leaf.cap,
                             SubSeq(leaf.data, at + 1, Len(leaf.data)),
                             leaf.next))]

\* LeafNode::insert after the push and the sort: the is_full check.
LeafSplitIfFull(leaf) ==
    IF LeafIsFull(leaf) THEN LeafSplit(leaf, SplitAt(leaf.data))
    ELSE [node |-> leaf, split |-> None]

\* LeafNode::insert: [node, split]
LeafInsert(leaf, key, data_id) ==
    LeafSplitIfFull([leaf EXCEPT
        !.data = SortByKey(Append(leaf.data, Pair(key, data_id)))])

\* The bits a moved-out slot keeps: a leaf's fields, an internal node's Vec
\* header.
Bits(n) ==
    IF n.kind = "Leaf" THEN n
    ELSE [kind |-> "Internal", cap |-> n.cap, buf |-> n.buf,
          len |-> Len(n.nodes), capacity |-> n.capacity]

RECURSIVE BitsOf(_)
BitsOf(pairs) ==
    IF pairs = <<>> THEN <<>>
    ELSE <<Bits(pairs[1].value)>> \o BitsOf(Tail(pairs))

\* InternalNode::split at index `at`: split_off moves the right half to a
\* new buffer (nb) of exactly that capacity; the left half stays where it
\* is, and so do the bits of the slots moved out.
InternalSplit(self, at, nb) ==
    [node |-> [self EXCEPT
                  !.nodes = SubSeq(self.nodes, 1, at),
                  !.spare = BitsOf(SubSeq(self.nodes, at + 1, Len(self.nodes)))
                            \o self.spare],
     split |-> Some(InternalNode(self.cap,
                                 SubSeq(self.nodes, at + 1, Len(self.nodes)),
                                 nb, Len(self.nodes) - at, <<>>)),
     nb |-> nb + 1, panic |-> FALSE]

\* InternalNode::find_mut_node, as an index into nodes (0: None)
FindMutNode(nodes, key) ==
    IF \E i \in 1..Len(nodes) : nodes[i].key <= key
    THEN TakeWhileLeLast(nodes, key, 0)
    ELSE IF nodes = <<>> THEN 0 ELSE 1

\* .or_else(|| self.nodes.first()) of InternalNode::find_node
OrElseFirst(l, nodes) == IF l # 0 THEN l ELSE IF nodes = <<>> THEN 0 ELSE 1

\* A find_node that routes by pair.key < key, against which the routing rule
\* is tried.
FindNodeStrict(nodes, key) == OrElseFirst(TakeWhileLtLast(nodes, key, 0), nodes)

\* InternalNode::find_node, as an index into nodes (0: None)
FindNode(nodes, key) == OrElseFirst(TakeWhileLeLast(nodes, key, 0), nodes)

\* Vec::push on self.nodes: a full buffer is reallocated (amortized
\* doubling, at least 4 slots) to buffer nb and the old one freed.
VecPush(self, pair, nb) ==
    IF Len(self.nodes) = self.capacity
    THEN [node |-> [self EXCEPT !.nodes = Append(self.nodes, pair),
                                !.buf = nb,
                                !.capacity = IF 2 * self.capacity < 4 THEN 4
                                             ELSE 2 * self.capacity,
                                !.spare = <<>>],
          nb |-> nb + 1]
    ELSE [node |-> [self EXCEPT !.nodes = Append(self.nodes, pair),
                                !.spare = IF self.spare = <<>> THEN <<>>
                                          ELSE Tail(self.spare)],
          nb |-> nb]

\* A relinking that closes the leaves of the node into a ring (the last
\* leaf gets the address of slot 1 instead of null), against which the
\* termination of the scan is tried.
RECURSIVE RelinkRing(_, _, _, _)
RelinkRing(nodes, i, next_node_ptr, buf) ==
    IF i = 0 THEN nodes
    ELSE IF nodes[i].value.kind = "Leaf"
         THEN RelinkRing([nodes EXCEPT ![i].value.next =
                             IF next_node_ptr = NULL THEN Addr(buf, 1)
                             ELSE next_node_ptr],
                         i - 1, Addr(buf, i), buf)
         ELSE RelinkRing(nodes, i - 1, next_node_ptr, buf)

\* The loop of InternalNode::insert that rewrites `next` of every leaf of
\* the node, last to first.
RECURSIVE Relink(_, _, _, _)
Relink(nodes, i, next_node_ptr, buf) ==
    IF i = 0 THEN nodes
    ELSE IF nodes[i].value.kind = "Leaf"
         THEN Relink([nodes EXCEPT ![i].value.next = next_node_ptr],
                     i - 1, Addr(buf, i), buf)
         ELSE Relink(nodes, i - 1, next_node_ptr, buf)

\* InternalNode::insert, its last statement: the is_full check.
InternalSplitIfFull(self, nb) ==
    IF InternalIsFull(self) THEN InternalSplit(self, SplitAt(self.nodes), nb)
    ELSE [node |-> self, split |-> None, nb |-> nb, panic |-> FALSE]

\* InternalNode::insert after the push (p: the node and the allocator): the
\* sort and the rewriting of the leaves' next.
InternalSortRelink(p) ==
    InternalSplitIfFull(
        [p.node EXCEPT !.nodes = Relink(SortByKey(p.node.nodes),
                                        Len(p.node.nodes), NULL, p.node.buf)],
        p.nb)

\* InternalNode::insert once the child has split: n is the new sibling and k
\* its min_key().
InternalAddSibling(self, n, k, nb) ==
    IF k = None THEN InternalSplitIfFull(self, nb)
    ELSE InternalSortRelink(VecPush(self, Pair(k.value, n), nb))

\* InternalNode::insert after the insert into child i returned r.
InternalAfterChild(self, i, r) ==
    IF r.panic
    THEN [node |-> self, split |-> None, nb |-> r.nb, panic |-> TRUE]
    ELSE IF r.split = None
    THEN InternalSplitIfFull([self EXCEPT !.nodes[i].value = r.node], r.nb)
    ELSE InternalAddSibling([self EXCEPT !.nodes[i].value = r.node],
                            r.split.value, MinKey(r.split.value), r.nb)

\* Node::insert and InternalNode::insert.  The result is
\* [node, split, nb, panic]: the node afterwards, the sibling split off (an
\* Option), the allocator, and whether an unwrap() failed.
RECURSIVE NodeInsert(_, _, _, _)
RECURSIVE InternalInsertInto(_, _, _, _, _)

\* InternalNode::insert from find_node_for_insert on; i is what
\* find_mut_node returned, unwrapped by find_node_for_insert.
InternalInsertInto(self, i, key, data, nb) ==
    IF i = 0
    THEN [node |-> self, split |-> None, nb |-> nb, panic |-> TRUE]
    ELSE InternalAfterChild(self, i,
             NodeInsert(self.nodes[i].value, key, data, nb))

\* InternalNode::insert
InternalInsert(self, key, data, nb) ==
    IF self.nodes = <<>>
    THEN [node |-> [self EXCEPT !.nodes =
                       <<Pair(key, LeafNode(self.cap, <<Pair(key, data)>>, NULL))>>],
          split |-> None, nb |-> nb, panic |-> FALSE]
    ELSE InternalInsertInto(self, FindMutNode(self.nodes, key), key, data, nb)

\* Node::insert of a leaf, in the shape of the result of InternalNode::insert.
LeafResult(r, nb) ==
    [node |-> r.node, split |-> r.split, nb |-> nb, panic |-> FALSE]

NodeInsert(n, key, data, nb) ==
    IF n.kind = "Internal"
    THEN InternalInsert(n, key, data, nb)
    ELSE LeafResult(LeafInsert(n, key, data), nb)

\* BPlusTree::insert, lines 62-68: the old child, when it is a leaf, gets the
\* address of the new sibling, which is a leaf too.
LinkFirst(old_child, node, buf) ==
    IF old_child.kind = "Leaf"
    THEN [old_child EXCEPT
            !.next = IF node.kind = "Leaf" THEN Addr(buf, 2) ELSE NULL]
    ELSE old_child

\* A root growth that hangs the new sibling one level too low, against
\* which the balance is tried.
NewRootNested(t, old_child, node, k0, k1, buf) ==
    IF k0 = None \/ k1 = None
    THEN [tree |-> t, nb |-> buf, panic |-> TRUE]
    ELSE [tree |-> [t EXCEPT !.node = Some(InternalNode(t.cap,
                       <<Pair(k0.value, old_child),
                         Pair(k1.value,
                              InternalNode(t.cap, <<Pair(k1.value, node)>>,
                                           buf + 1, 1, <<>>))>>,
                       buf, 2, <<>>))],
          nb |-> buf + 2, panic |-> FALSE]

\* BPlusTree::insert once the child has split: the new top node, in a new
\* buffer (buf) of two slots.  k0 and k1 are the two min_key() unwrapped.
NewRoot(t, old_child, node, k0, k1, buf) ==
    IF k0 = None \/ k1 = None
    THEN [tree |-> t, nb |-> buf, panic |-> TRUE]
    ELSE [tree |-> [t EXCEPT !.node = Some(InternalNode(t.cap,
                       <<Pair(k0.value, LinkFirst(old_child, node, buf)),
                         Pair(k1.value, node)>>,
                       buf, 2, <<>>))],
          nb |-> buf + 1, panic |-> FALSE]

\* BPlusTree::insert after the insert into the child returned r.
AfterChild(t, r) ==
    IF r.panic THEN [tree |-> t, nb |-> r.nb, panic |-> TRUE]
    ELSE IF r.split = None
    THEN [tree |-> [t EXCEPT !.node = Some(r.node)], nb |-> r.nb,
          panic |-> FALSE]
    ELSE NewRoot(t, r.node, r.split.value,
                 MinKey(r.node), MinKey(r.split.value), r.nb)

\* BPlusTree::insert: [tree, nb, panic]
BPlusTreeInsert(t, key, data, nb) ==
    IF t.node = None
    THEN [tree |-> [t EXCEPT !.node =
                       Some(LeafNode(t.cap, <<Pair(key, data)>>, NULL))],
          nb |-> nb, panic |-> FALSE]
    ELSE AfterChild(t, NodeInsert(t.node.value, key, data, nb))

\* A search that takes the first entry of the leaf whatever its key, against
\* which the properties of search are tried.
LeafSearchFirst(leaf, key) ==
    IF leaf.data = <<>> THEN None ELSE Some(leaf.data[1].value)

\* LeafNode::search
LeafSearch(leaf, key) ==
    IF \E i \in 1..Len(leaf.data) : leaf.data[i].key = key
    THEN Some(leaf.data[CHOOSE i \in 1..Len(leaf.data) :
                           /\ leaf.data[i].key = key
                           /\ \A j \in 1..(i - 1) : leaf.data[j].key # key].value)
    ELSE None

\* Node::search and InternalNode::search
RECURSIVE NodeSearch(_, _)
RECURSIVE InternalSearch(_, _, _)

\* InternalNode::search; p is what find_node returned.
InternalSearch(self, p, key) ==
    IF p = 0 THEN None ELSE NodeSearch(self.nodes[p].value, key)

NodeSearch(n, key) ==
    IF n.kind = "Internal"
    THEN InternalSearch(n, FindNode(n.nodes, key), key)
    ELSE LeafSearch(n, key)

\* BPlusTree::search
BPlusTreeSearch(t, key) ==
    IF t.node = None THEN None ELSE NodeSearch(t.node.value, key)

\* BPlusTree::search_range walks the leaf chain through raw pointers.
\* FindBuf: the internal node of the tree that owns buffer b (None: no node
\* does, the buffer was freed or never existed).
RECURSIVE FindBuf(_, _)
RECURSIVE FindBufIn(_, _, _)

\* The first child of n, from child i on, under which buffer b is found.
FindBufIn(n, b, i) ==
    IF i > Len(n.nodes) THEN None
    ELSE IF FindBuf(n.nodes[i].value, b) # None
    THEN FindBuf(n.nodes[i].value, b)
    ELSE FindBufIn(n, b, i + 1)

FindBuf(n, b) ==
    IF n.kind # "Internal" THEN None
    ELSE IF n.buf = b THEN Some(n)
    ELSE FindBufIn(n, b, 1)

\* What is in slot idx of the buffer of node n (n: what FindBuf found):
\*   live   the slot holds a leaf the tree owns;
\*   moved  the slot is past len: it holds the bits split_off left behind;
\*   wild   anything else (freed buffer, never written slot).
Slot(o, idx) ==
    IF o = None THEN [state |-> "wild"]
    ELSE IF idx <= Len(o.value.nodes)
    THEN IF o.value.nodes[idx].value.kind = "Leaf"
         THEN [state |-> "live", leaf |-> o.value.nodes[idx].value]
         ELSE [state |-> "wild"]
    ELSE IF idx - Len(o.value.nodes) <= Len(o.value.spare)
    THEN IF o.value.spare[idx - Len(o.value.nodes)].kind = "Leaf"
         THEN [state |-> "moved",
               leaf |-> o.value.spare[idx - Len(o.value.nodes)]]
         ELSE [state |-> "wild"]
    ELSE [state |-> "wild"]

\* What `unsafe { x.next.as_ref() }` finds at a non-null address.
Deref(t, ptr) ==
    IF t.node = None THEN [state |-> "wild"]
    ELSE Slot(FindBuf(t.node.value, ptr.buf), ptr.idx)

\* The values of the entries of data with min_key <= key <= max_key, in order.
RECURSIVE ValuesIn(_, _, _)
ValuesIn(data, min_key, max_key) ==
    IF data = <<>> THEN <<>>
    ELSE (IF data[1].key >= min_key /\ data[1].key <= max_key
          THEN <<data[1].value>> ELSE <<>>)
         \o ValuesIn(Tail(data), min_key, max_key)

\* The values of the entries of data with key <= max_key, in order.
RECURSIVE ValuesUpTo(_, _)
ValuesUpTo(data, max_key) ==
    IF data = <<>> THEN <<>>
    ELSE (IF data[1].key <= max_key THEN <<data[1].value>> ELSE <<>>)
         \o ValuesUpTo(Tail(data), max_key)

\* What a call of search_range can end with: the Vec it returns, the number
\* of leaves it read and how many of them through a dangling pointer; a
\* crash; or no end at all.
Returned(result, visits, dangling) ==
    [status |-> "ok", result |-> result, visits |-> visits,
     dangling |-> dangling]
Crashed == [status |-> "crash", result |-> <<>>, visits |-> 0, dangling |-> 1]
Diverges(dangling) ==
    [status |-> "diverges", result |-> <<>>, visits |-> 0,
     dangling |-> dangling]

\* The loop of LeafNode::search_range from the leaf at ptr on: the set of
\* its possible outcomes.  Reading through a dangling pointer is undefined
\* behaviour: the read may fault, or it may see the bits still lying in the
\* slot and go on with them.  An address reached twice repeats forever.
\* seen: the addresses read so far; dangling: how many of them held no leaf
\* of the tree.
RECURSIVE ScanChain(_, _, _, _, _, _)
RECURSIVE ScanLeaf(_, _, _, _, _, _, _, _)
RECURSIVE ScanCell(_, _, _, _, _, _, _)

\* One turn of the loop on the leaf read at ptr; data: its values <= max_key.
ScanLeaf(t, ptr, target_leaf_node, data, max_key, result, seen, dangling) ==
    IF Len(data) < Len(target_leaf_node.data)
    THEN {Returned(result \o data, Cardinality(seen) + 2, dangling)}
    ELSE ScanChain(t, target_leaf_node.next, max_key, result \o data,
                   seen \cup {ptr}, dangling)

ScanCell(t, ptr, c, max_key, result, seen, dangling) ==
    IF c.state = "wild" THEN {Crashed}
    ELSE (IF c.state = "moved" THEN {Crashed} ELSE {})
         \cup ScanLeaf(t, ptr, c.leaf, ValuesUpTo(c.leaf.data, max_key),
                       max_key, result, seen,
                       IF c.state = "moved" THEN dangling + 1 ELSE dangling)

ScanChain(t, ptr, max_key, result, seen, dangling) ==
    IF ptr = NULL THEN {Returned(result, Cardinality(seen) + 1, dangling)}
    ELSE IF ptr \in seen THEN {Diverges(dangling)}
    ELSE ScanCell(t, ptr, Deref(t, ptr), max_key, result, seen, dangling)

\* LeafNode::search_range
LeafSearchRange(t, leaf, min_key, max_key) ==
    ScanChain(t, leaf.next, max_key, ValuesIn(leaf.data, min_key, max_key),
              {}, 0)

\* Node::search_range and InternalNode::search_range
RECURSIVE NodeSearchRange(_, _, _, _)
RECURSIVE InternalSearchRange(_, _, _, _, _)

\* InternalNode::search_range; p is what find_node returned.
InternalSearchRange(t, self, p, min_key, max_key) ==
    IF p = 0 THEN {Returned(<<>>, 0, 0)}
    ELSE NodeSearchRange(t, self.nodes[p].value, min_key, max_key)

\* Node::search_range without its first test, against which the properties
\* of an empty range are tried.
NodeSearchRangeUnguarded(t, n, min_key, max_key) ==
    IF n.kind = "Internal"
    THEN InternalSearchRange(t, n, FindNode(n.nodes, min_key), min_key, max_key)
    ELSE LeafSearchRange(t, n, min_key, max_key)

NodeSearchRange(t, n, min_key, max_key) ==
    IF min_key > max_key THEN {Returned(<<>>, 0, 0)}
    ELSE IF n.kind = "Internal"
    THEN InternalSearchRange(t, n, FindNode(n.nodes, min_key), min_key, max_key)
    ELSE LeafSearchRange(t, n, min_key, max_key)

\* BPlusTree::search_range
BPlusTreeSearchRange(t, min_key, max_key) ==
    IF t.node = None THEN {Returned(<<>>, 0, 0)}
    ELSE NodeSearchRange(t, t.node.value, min_key, max_key)

\* =====================================================================
\*                                bplus
\* =====================================================================

\* Record { key, value }
Record(key, value) == [key |-> key, value |-> value]

\* Rc::new(RefCell::new(node)): the allocation rc holding node.
RefNode(rc, node) == [rc |-> rc, node |-> node]

\* bplus LeafNode { cap, data, next }; next is None or Some(rc), the
\* allocation the Weak reference designates.
RcLeafNode(cap, data, next) ==
    [kind |-> "Leaf", cap |-> cap, data |-> data, next |-> next]

\* bplus InternalNode { cap, data }
RcInternalNode(cap, data) == [kind |-> "Internal", cap |-> cap, data |-> data]

\* bplus Node::new
RcNodeNew(cap) == [kind |-> "Root", cap |-> cap, data |-> None]

\* bplus Node::min_key
RECURSIVE RcMinKey(_)
RcMinKey(n) ==
    IF n.kind = "Root"
    THEN IF n.data = None THEN None ELSE RcMinKey(n.data.value)
    ELSE IF n.data = <<>> THEN None ELSE Some(n.data[1].key)

\* bplus LeafNode::is_full
RcLeafIsFull(leaf) == Len(leaf.data) > leaf.cap

\* bplus InternalNode::is_full
RcInternalIsFull(self) == Len(self.data) > (self.cap + 1)

\* bplus LeafNode::split at index `at`: the new right sibling, in the new
\* allocation nrc, takes self.next; self.next designates the new sibling.
RcLeafSplit(leaf, at, nrc) ==
    [node |-> [leaf EXCEPT !.data = SubSeq(leaf.data, 1, at),
                           !.next = Some(nrc)],
     split |-> Some(RefNode(nrc,
                      RcLeafNode(leaf.cap,
                                 SubSeq(leaf.data, at + 1, Len(leaf.data)),
                                 leaf.next))),
     nrc |-> nrc + 1, panic |-> FALSE, err |-> FALSE]

\* bplus LeafNode::insert after the push and the sort: the is_full check.
RcLeafSplitIfFull(leaf, nrc) ==
    IF RcLeafIsFull(leaf) THEN RcLeafSplit(leaf, SplitAt(leaf.data), nrc)
    ELSE [node |-> leaf, split |-> None, nrc |-> nrc,
          panic |-> FALSE, err |-> FALSE]

\* bplus LeafNode::insert: [node, split, nrc, panic, err]
RcLeafInsert(leaf, data, nrc) ==
    RcLeafSplitIfFull([leaf EXCEPT !.data = SortByKey(Append(leaf.data, data))],
                      nrc)

\* bplus InternalNode::split at index `at`
RcInternalSplit(self, at, nrc) ==
    [node |-> [self EXCEPT !.data = SubSeq(self.data, 1, at)],
     split |-> Some(RefNode(nrc,
                      RcInternalNode(self.cap,
                                     SubSeq(self.data, at + 1, Len(self.data))))),
     nrc |-> nrc + 1, panic |-> FALSE, err |-> FALSE]

\* bplus InternalNode::insert, its last statements: the is_full check.
RcInternalSplitIfFull(self, nrc) ==
    IF RcInternalIsFull(self)
    THEN RcInternalSplit(self, SplitAt(self.data), nrc)
    ELSE [node |-> self, split |-> None, nrc |-> nrc,
          panic |-> FALSE, err |-> FALSE]

\* bplus InternalNode::insert once the child has split: n is the new sibling
\* and k its min_key().
RcInternalAddSibling(self, n, k, nrc) ==
    IF k = None THEN RcInternalSplitIfFull(self, nrc)
    ELSE RcInternalSplitIfFull(
             [self EXCEPT !.data = SortByKey(Append(self.data, Pair(k.value, n)))],
             nrc)

\* bplus InternalNode::insert after the insert into child x returned r.
RcInternalAfterChild(self, x, r) ==
    IF r.panic \/ r.err
    THEN [node |-> self, split |-> None, nrc |-> r.nrc,
          panic |-> r.panic, err |-> r.err]
    ELSE IF r.split = None
    THEN RcInternalSplitIfFull([self EXCEPT !.data[x].value.node = r.node], r.nrc)
    ELSE RcInternalAddSibling([self EXCEPT !.data[x].value.node = r.node],
                              r.split.value, RcMinKey(r.split.value.node), r.nrc)

\* if x.is_none() { x = self.data.first_mut() }, as an index
OrFirst(l) == IF l = 0 THEN 1 ELSE l

\* bplus Node::insert, InternalNode::insert and RootNode::insert
RECURSIVE RcNodeInsert(_, _, _)
RECURSIVE RcInternalInsertInto(_, _, _, _)

\* bplus InternalNode::insert from the choice of the child on.
RcInternalInsertInto(self, x, data, nrc) ==
    RcInternalAfterChild(self, x, RcNodeInsert(self.data[x].value.node, data, nrc))

\* bplus InternalNode::insert
RcInternalInsert(self, data, nrc) ==
    IF self.data = <<>>
    THEN RcInternalInsertInto(
             [self EXCEPT !.data =
                 <<Pair(data.key,
                        RefNode(nrc, RcLeafNode(self.cap, <<>>, None)))>>],
             1, data, nrc + 1)
    ELSE RcInternalInsertInto(self,
             OrFirst(TakeWhileLtLast(self.data, data.key, 0)), data, nrc)

\* bplus RootNode::insert once the child has split: the new top node; the old
\* child moves out of its Box into the new allocation nrc.
RcNewRoot(root, n, inserted_node, k0, k1, nrc) ==
    IF k0 = None \/ k1 = None
    THEN [node |-> root, split |-> None, nrc |-> nrc,
          panic |-> TRUE, err |-> FALSE]
    ELSE [node |-> [root EXCEPT !.data = Some(RcInternalNode(root.cap,
                       <<Pair(k0.value, RefNode(nrc, n)),
                         Pair(k1.value, inserted_node)>>))],
          split |-> None, nrc |-> nrc + 1, panic |-> FALSE, err |-> FALSE]

\* bplus RootNode::insert after the insert into the child returned r.
RcRootAfterChild(root, r) ==
    IF r.panic \/ r.err
    THEN [node |-> root, split |-> None, nrc |-> r.nrc,
          panic |-> r.panic, err |-> r.err]
    ELSE IF r.split = None
    THEN [node |-> [root EXCEPT !.data = Some(r.node)],
          split |-> None, nrc |-> r.nrc, panic |-> FALSE, err |-> FALSE]
    ELSE RcNewRoot(root, r.node, r.split.value,
                   RcMinKey(r.node), RcMinKey(r.split.value.node), r.nrc)

\* bplus RootNode::insert
RcRootInsert(root, data, nrc) ==
    IF root.data = None
    THEN [node |-> [root EXCEPT !.data =
                       Some(RcLeafNode(root.cap, <<data>>, None))],
          split |-> None, nrc |-> nrc, panic |-> FALSE, err |-> FALSE]
    ELSE RcRootAfterChild(root, RcNodeInsert(root.data.value, data, nrc))

RcNodeInsert(n, data, nrc) ==
    IF n.kind = "Root" THEN RcRootInsert(n, data, nrc)
    ELSE IF n.kind = "Internal" THEN RcInternalInsert(n, data, nrc)
    ELSE RcLeafInsert(n, data, nrc)

\* --------------------------------------------------------- the program
Init ==
    /\ \E cap \in Caps :
          /\ tree = BPlusTreeNew(cap)
          /\ rnode = RcNodeNew(cap)
    /\ nextBuf = 1
    /\ nextRc = 1
    /\ panicked = FALSE
    /\ inserted = <<>>
    /\ last = [op |-> "new"]

\* One insert, given to both crates: b.insert(key, data) of unsafebplus and
\* n.insert(Record { key, value: data }) of bplus.  The code never looks at
\* the value, so the model hands out the values 1, 2, 3, ... (the index of
\* the entry in the caller's store, as the comment of BPlusTree::insert has
\* it): every entry stays distinguishable.
InsertBoth(bound) ==
    /\ ~panicked
    /\ Len(inserted) < bound
    /\ \E key \in Keys :
          \E r \in {BPlusTreeInsert(tree, key, Len(inserted) + 1, nextBuf)},
             rr \in {RcNodeInsert(rnode, Record(key, Len(inserted) + 1), nextRc)} :
             /\ tree' = r.tree
             /\ nextBuf' = r.nb
             /\ rnode' = rr.node
             /\ nextRc' = rr.nrc
             /\ panicked' = (r.panic \/ rr.panic)
             /\ inserted' = Append(inserted, Pair(key, Len(inserted) + 1))
             /\ last' = [op |-> "insert", key |-> key,
                         data |-> Len(inserted) + 1,
                         res |-> IF rr.err THEN "Err" ELSE "Ok"]

Insert == InsertBoth(MaxInserts)

InsertOnly == InsertBoth(MaxInsertsOnly)

Search ==
    /\ ~panicked
    /\ \E key \in Keys :
          last' = [op |-> "search", key |-> key, res |-> BPlusTreeSearch(tree, key)]
    /\ UNCHANGED <<tree, nextBuf, rnode, nextRc, panicked, inserted>>

SearchRange ==
    /\ ~panicked
    /\ \E min_key \in Keys, max_key \in Keys :
          \E o \in BPlusTreeSearchRange(tree, min_key, max_key) :
             last' = [op |-> "search_range", min_key |-> min_key,
                      max_key |-> max_key, res |-> o]
    /\ UNCHANGED <<tree, nextBuf, rnode, nextRc, panicked, inserted>>

Next == Insert \/ Search \/ SearchRange

Spec == Init /\ [][Next]_vars

\* The inserts alone, to a greater depth.
NextInsert == InsertOnly

SpecInsert == Init /\ [][NextInsert]_vars

\* =====================================================================
\*                              properties
\* =====================================================================

\* The keys of the history are pairwise distinct.
DistinctKeys ==
    \A i, j \in 1..Len(inserted) :
        inserted[i].key = inserted[j].key => i = j

\* The entries of the history with key `key`, and those in a key range.
InsertedWith(key) == {i \in 1..Len(inserted) : inserted[i].key = key}

\* C1 (round trip, unsafebplus): with capacity >= 1 and pairwise distinct
\* keys, a search for an inserted key returns the value inserted with it.
C1_RoundTrip ==
    (/\ last.op = "search"
     /\ tree.cap >= 1
     /\ DistinctKeys
     /\ InsertedWith(last.key) # {})
    => \E i \in InsertedWith(last.key) : last.res = Some(inserted[i].value)

\* The history entries whose key lies in [min_key, max_key].  The value of
\* entry i is i, so a returned value names the entry it belongs to.
InsertedIn(min_key, max_key) ==
    {i \in 1..Len(inserted) :
        inserted[i].key >= min_key /\ inserted[i].key <= max_key}

\* The trees the specification admits without dispute: capacity >= 1 and
\* no key inserted twice.
Plain == tree.cap >= 1 /\ DistinctKeys

\* C2 (range scan, unsafebplus): for min_key <= max_key, search_range
\* returns exactly the values inserted with a key in [min_key, max_key],
\* each once, in ascending key order.  Stated for capacity >= 1, pairwise
\* distinct keys and the scans that read through no dangling pointer, where
\* it fails already.
C2_RangeScan ==
    (/\ Plain
     /\ last.op = "search_range"
     /\ last.min_key <= last.max_key
     /\ last.res.dangling = 0)
    => /\ last.res.status = "ok"
       /\ {last.res.result[i] : i \in 1..Len(last.res.result)}
             = InsertedIn(last.min_key, last.max_key)
       /\ Len(last.res.result)
             = Cardinality(InsertedIn(last.min_key, last.max_key))
       /\ \A i, j \in 1..Len(last.res.result) :
             i < j => inserted[last.res.result[i]].key
                         <= inserted[last.res.result[j]].key

\* The leaves under node n, left to right, each with the address it is
\* stored at; n itself is stored at `at`.
RECURSIVE LeafSlots(_, _)
LeafSlots(n, at) ==
    IF n.kind = "Leaf" THEN <<[at |-> at, leaf |-> n]>>
    ELSE LET F[i \in 0..Len(n.nodes)] ==
                 IF i = 0 THEN <<>>
                 ELSE F[i - 1] \o LeafSlots(n.nodes[i].value, Addr(n.buf, i))
         IN F[Len(n.nodes)]

\* The leaves of the unsafebplus tree, left to right.  A leaf that is the
\* root lies in the tree handle, written as slot 1 of buffer 0.
Leaves ==
    IF tree.node = None THEN <<>> ELSE LeafSlots(tree.node.value, Addr(0, 1))

\* The leaves met from the leftmost leaf on by following `next` as long as
\* it holds the address of a leaf of the tree, each address at most once.
RECURSIVE ChainFrom(_, _)
ChainFrom(i, seen) ==
    LET ls == Leaves
        nxt == {j \in 1..Len(ls) : ls[j].at = ls[i].leaf.next}
    IN IF nxt = {} \/ nxt \subseteq seen THEN <<ls[i].leaf>>
       ELSE <<ls[i].leaf>> \o ChainFrom(CHOOSE j \in nxt : TRUE, seen \cup nxt)

Chain == IF Leaves = <<>> THEN <<>> ELSE ChainFrom(1, {1})

\* C3 (leaf chain, unsafebplus): every leaf's next is the address of the
\* leaf that follows it in the tree, null for the rightmost leaf only, so
\* the chain from the leftmost leaf meets every leaf.  Stated for capacity
\* >= 1 and pairwise distinct keys, where it fails already.
C3_LeafChain ==
    Plain =>
    /\ \A i \in 1..Len(Leaves) :
          Leaves[i].leaf.next =
             IF i < Len(Leaves) THEN Leaves[i + 1].at ELSE NULL
    /\ Len(Chain) = Len(Leaves)

\* The keys of the entries of a sequence of leaves, concatenated.
RECURSIVE KeysOf(_)
KeysOf(leaves) ==
    IF leaves = <<>> THEN <<>>
    ELSE [i \in 1..Len(leaves[1].data) |-> leaves[1].data[i].key]
         \o KeysOf(Tail(leaves))

NonDecreasing(ks) == \A i \in 1..(Len(ks) - 1) : ks[i] <= ks[i + 1]

\* C4 (sorted, unsafebplus): the keys met by walking the chain from the
\* leftmost leaf are in non-decreasing order.  Stated for capacity >= 1 and
\* pairwise distinct keys, where it fails already.
C4_Sorted == Plain => NonDecreasing(KeysOf(Chain))

\* The leaves under the bplus node n, left to right, each with the
\* allocation it lives in; n itself lives in allocation rc.
RECURSIVE RcLeafSlots(_, _)
RcLeafSlots(n, rc) ==
    IF n.kind = "Leaf" THEN <<[rc |-> rc, leaf |-> n]>>
    ELSE LET F[i \in 0..Len(n.data)] ==
                 IF i = 0 THEN <<>>
                 ELSE F[i - 1] \o RcLeafSlots(n.data[i].value.node,
                                              n.data[i].value.rc)
         IN F[Len(n.data)]

\* The leaves of the bplus tree, left to right.  The child of the root lies
\* in a Box, written as allocation 0.
RcLeaves ==
    IF rnode.data = None THEN <<>> ELSE RcLeafSlots(rnode.data.value, 0)

\* The keys stored in a leaf, and the keys stored in the bplus tree.
LeafKeys(leaf) == {leaf.data[i].key : i \in 1..Len(leaf.data)}
RcAllKeys == UNION {LeafKeys(RcLeaves[i].leaf) : i \in 1..Len(RcLeaves)}

\* The keys of the bplus tree that are larger than every key of leaf.
KeysAbove(leaf) == {k \in RcAllKeys : \A j \in LeafKeys(leaf) : k > j}

\* C5 (leaf chain, bplus): the next of the leaf that holds the largest keys
\* is None; the next of every other leaf upgrades to a leaf of the tree, the
\* one that holds the next larger key.  Stated for capacity >= 1 and
\* pairwise distinct keys, where it fails already.
C5_RcLeafChain ==
    (rnode.cap >= 1 /\ DistinctKeys) =>
    \A i \in 1..Len(RcLeaves) :
       LET leaf == RcLeaves[i].leaf
       IN IF KeysAbove(leaf) = {} THEN leaf.next = None
          ELSE /\ leaf.next # None
               /\ \E j \in 1..Len(RcLeaves) :
                     /\ RcLeaves[j].rc = leaf.next.value
                     /\ \E k \in LeafKeys(RcLeaves[j].leaf) :
                           /\ k \in KeysAbove(leaf)
                           /\ \A k2 \in KeysAbove(leaf) : k <= k2

\* The entries of a sequence of entries, as a set.
Entries(data) == {data[i] : i \in 1..Len(data)}

\* left and right are the two halves of a split of the cap + 1 entries
\* inserted so far: left holds the (cap + 1) / 2 smallest, right the others.
SplitHalves(cap, left, right) ==
    /\ Len(left) = (cap + 1) \div 2
    /\ Len(left) + Len(right) = cap + 1
    /\ Entries(left) \cup Entries(right) = Entries(inserted)
    /\ \A i \in 1..Len(left), j \in 1..Len(right) : left[i].key <= right[j].key

\* C6 (split correctness, both crates): cap + 1 inserts into an empty tree
\* of capacity cap >= 1 give one internal node with two children, both
\* leaves; the left leaf holds the (cap + 1) / 2 smallest entries, the right
\* leaf the others, and together they hold exactly the inserted entries.
C6_Split ==
    (tree.cap >= 1 /\ Len(inserted) = tree.cap + 1) =>
    /\ ~panicked
    /\ tree.node.value.kind = "Internal"
    /\ Len(tree.node.value.nodes) = 2
    /\ tree.node.value.nodes[1].value.kind = "Leaf"
    /\ tree.node.value.nodes[2].value.kind = "Leaf"
    /\ SplitHalves(tree.cap, tree.node.value.nodes[1].value.data,
                   tree.node.value.nodes[2].value.data)
    /\ rnode.data.value.kind = "Internal"
    /\ Len(rnode.data.value.data) = 2
    /\ rnode.data.value.data[1].value.node.kind = "Leaf"
    /\ rnode.data.value.data[2].value.node.kind = "Leaf"
    /\ SplitHalves(rnode.cap, rnode.data.value.data[1].value.node.data,
                   rnode.data.value.data[2].value.node.data)

\* C6 witness: capacity 2 and three inserts in descending key order; the
\* split is uneven, one entry to the left and two to the right.
C6_Witness ==
    /\ tree.cap = 2
    /\ Len(inserted) = 3
    /\ inserted[1].key > inserted[2].key
    /\ inserted[2].key > inserted[3].key
    /\ Len(tree.node.value.nodes[2].value.data) = 2
    /\ Len(rnode.data.value.data[2].value.node.data) = 2

\* The keys stored under the unsafebplus node n.
RECURSIVE SubtreeKeys(_)
SubtreeKeys(n) ==
    IF n.kind = "Leaf" THEN LeafKeys(n)
    ELSE UNION {SubtreeKeys(n.nodes[i].value) : i \in 1..Len(n.nodes)}

\* Every separator under n is the smallest key of the subtree it stands for.
RECURSIVE SeparatorsExact(_)
SeparatorsExact(n) ==
    n.kind = "Internal" =>
    \A i \in 1..Len(n.nodes) :
       /\ n.nodes[i].key \in SubtreeKeys(n.nodes[i].value)
       /\ \A k \in SubtreeKeys(n.nodes[i].value) : n.nodes[i].key <= k
       /\ SeparatorsExact(n.nodes[i].value)

\* C7 (separators, unsafebplus): in every internal node the key of every
\* pair, the first pair included, is the smallest key stored in the subtree
\* of that pair's child.  Stated for capacity >= 1 and pairwise distinct
\* keys, where it fails already.
C7_Separator ==
    (Plain /\ tree.node # None) => SeparatorsExact(tree.node.value)

\* C8 (search, unsafebplus): a search for a key that was never inserted, and
\* any search of an empty tree, returns None; a value that search returns was
\* inserted together with the key searched for.
C8_Search ==
    last.op = "search" =>
    /\ InsertedWith(last.key) = {} => last.res = None
    /\ last.res # None =>
          \E i \in InsertedWith(last.key) : last.res = Some(inserted[i].value)

\* C8 witness: a search of a tree grown to an internal root, for a key that
\* lies between inserted keys but was never inserted itself.
C8_Witness ==
    /\ last.op = "search"
    /\ tree.node # None
    /\ tree.node.value.kind = "Internal"
    /\ InsertedWith(last.key) = {}
    /\ \E i, j \in 1..Len(inserted) :
          inserted[i].key < last.key /\ last.key < inserted[j].key

\* C9 (empty range, unsafebplus): a search_range with min_key > max_key, and
\* any search_range of an empty tree, returns the empty Vec without reading a
\* leaf, and leaves the trees as they were.
C9_EmptyRange ==
    [][(/\ last'.op = "search_range"
        /\ (last'.min_key > last'.max_key \/ tree.node = None))
       => /\ last'.res = Returned(<<>>, 0, 0)
          /\ tree' = tree
          /\ rnode' = rnode]_vars

\* C9 witness: a search_range with min_key > max_key on a tree whose leaves
\* hold keys on both sides of the bounds.
C9_Witness ==
    /\ last.op = "search_range"
    /\ last.min_key > last.max_key
    /\ tree.node # None
    /\ tree.node.value.kind = "Internal"
    /\ \E i \in 1..Len(inserted) :
          inserted[i].key <= last.min_key /\ inserted[i].key >= last.max_key

\* C10 (insert succeeds, both crates): with capacity >= 1 no insert reaches
\* an unwrap() on None, and no insert of bplus returns Err, whether or not
\* its key is already present.
C10_InsertSucceeds ==
    tree.cap >= 1 =>
    /\ ~panicked
    /\ last.op = "insert" => last.res = "Ok"

\* C10 witness: the insert of a key already present, into trees that have
\* split leaves and internal nodes.
C10_Witness ==
    /\ tree.cap >= 1
    /\ last.op = "insert"
    /\ Cardinality(InsertedWith(last.key)) >= 2
    /\ tree.node.value.kind = "Internal"
    /\ tree.node.value.nodes[1].value.kind = "Internal"
    /\ rnode.data.value.kind = "Internal"
    /\ rnode.data.value.data[1].value.node.kind = "Internal"

\* C11 (capacity validated): a tree of capacity 0 is rejected when it is
\* constructed, so insert is never applied to one.
C11_CapacityValidated ==
    last.op = "insert" => (tree.cap >= 1 /\ rnode.cap >= 1)

\* The unsafebplus node n and every node beneath it, as a set.
RECURSIVE NodesUnder(_)
NodesUnder(n) ==
    IF n.kind = "Leaf" THEN {n}
    ELSE {n} \cup UNION {NodesUnder(n.nodes[i].value) : i \in 1..Len(n.nodes)}

\* The nodes of the unsafebplus tree.
TreeNodes == IF tree.node = None THEN {} ELSE NodesUnder(tree.node.value)

\* The bplus node n and every node beneath it, as a set.
RECURSIVE RcNodesUnder(_)
RcNodesUnder(n) ==
    IF n.kind = "Leaf" THEN {n}
    ELSE {n} \cup UNION {RcNodesUnder(n.data[i].value.node) :
                            i \in 1..Len(n.data)}

\* The nodes of the bplus tree below its root.
RcTreeNodes == IF rnode.data = None THEN {} ELSE RcNodesUnder(rnode.data.value)

\* The keys of a sequence of entries or pairs never decrease.
KeysAscend(s) == \A i \in 1..(Len(s) - 1) : s[i].key <= s[i + 1].key

\* C12 (order within a node, both crates): after every insert the entries
\* of every leaf are in ascending key order (equal keys side by side) and so
\* are the pairs of every internal node by their separator keys.
C12_NodeOrder ==
    /\ \A n \in TreeNodes :
          KeysAscend(IF n.kind = "Leaf" THEN n.data ELSE n.nodes)
    /\ \A n \in RcTreeNodes : KeysAscend(n.data)

\* C12 witness: keys inserted in descending order into trees that have
\* grown an internal node over internal nodes.
C12_Witness ==
    /\ Len(inserted) >= 4
    /\ \A i \in 1..(Len(inserted) - 1) : inserted[i].key > inserted[i + 1].key
    /\ tree.node.value.kind = "Internal"
    /\ tree.node.value.nodes[1].value.kind = "Internal"
    /\ rnode.data.value.kind = "Internal"
    /\ rnode.data.value.data[1].value.node.kind = "Internal"

\* C13 (range scan soundness, unsafebplus): for min_key <= max_key no value
\* that search_range returns was inserted with a key below min_key or above
\* max_key.  Stated for capacity >= 1, pairwise distinct keys and the scans
\* that read through no dangling pointer, where it fails already.
C13_RangeSound ==
    (/\ Plain
     /\ last.op = "search_range"
     /\ last.min_key <= last.max_key
     /\ last.res.status = "ok"
     /\ last.res.dangling = 0)
    => \A i \in 1..Len(last.res.result) :
          /\ inserted[last.res.result[i]].key >= last.min_key
          /\ inserted[last.res.result[i]].key <= last.max_key

\* What LeafNode::insert of key does to leaf: it splits exactly when the leaf
\* reaches cap + 1 entries, and then leaves floor((cap + 1) / 2) of them.
LeafSplitsAtCap(leaf, key) ==
    LET r == LeafInsert(leaf, key, 0)
    IN IF Len(leaf.data) + 1 = leaf.cap + 1
       THEN /\ r.split # None
            /\ Len(r.node.data) = (leaf.cap + 1) \div 2
            /\ Len(r.node.data) + Len(r.split.value.data) = leaf.cap + 1
       ELSE r.split = None /\ Len(r.node.data) = Len(leaf.data) + 1

\* What InternalNode::insert of key does to self: it splits exactly when the
\* node reaches cap + 2 children, and then leaves floor((cap + 2) / 2) of
\* them; otherwise the node keeps its children or gains one.
InternalSplitsAtCap(self, key) ==
    LET r == InternalInsert(self, key, 0, nextBuf)
    IN IF r.split # None
       THEN /\ Len(r.node.nodes) = (self.cap + 2) \div 2
            /\ Len(r.node.nodes) + Len(r.split.value.nodes) = self.cap + 2
       ELSE /\ Len(r.node.nodes) <= self.cap + 1
            /\ Len(r.node.nodes) \in {Len(self.nodes), Len(self.nodes) + 1}

\* C14 (node sizes): with capacity >= 1, after every insert every leaf holds
\* 1..cap entries and every internal node 1..cap + 1 children, in both
\* crates; a leaf splits exactly on reaching cap + 1 entries and an internal
\* node exactly on reaching cap + 2 children, floor(n / 2) staying left.
C14_NodeSizes ==
    tree.cap >= 1 =>
    /\ \A n \in TreeNodes :
          IF n.kind = "Leaf"
          THEN /\ Len(n.data) \in 1..n.cap
               /\ \A key \in Keys : LeafSplitsAtCap(n, key)
          ELSE /\ Len(n.nodes) \in 1..(n.cap + 1)
               /\ \A key \in Keys : InternalSplitsAtCap(n, key)
    /\ \A n \in RcTreeNodes :
          IF n.kind = "Leaf" THEN Len(n.data) \in 1..n.cap
          ELSE Len(n.data) \in 1..(n.cap + 1)

\* C14 witness: capacity 2, an internal node that has split at four
\* children, two staying left.
C14_Witness ==
    /\ tree.cap = 2
    /\ tree.node # None
    /\ tree.node.value.kind = "Internal"
    /\ tree.node.value.nodes[1].value.kind = "Internal"
    /\ Len(tree.node.value.nodes[1].value.nodes) = 2
    /\ Len(tree.node.value.nodes[2].value.nodes) = 2

\* The number of internal levels above the leaves of node n (both crates);
\* an empty tree and a tree of one leaf have height 0.
RECURSIVE Height(_)
Height(n) == IF n.kind = "Leaf" THEN 0 ELSE 1 + Height(n.nodes[1].value)
TreeHeight(t) == IF t.node = None THEN 0 ELSE Height(t.node.value)

RECURSIVE RcHeight(_)
RcHeight(n) == IF n.kind = "Leaf" THEN 0 ELSE 1 + RcHeight(n.data[1].value.node)
RcTreeHeight(root) == IF root.data = None THEN 0 ELSE RcHeight(root.data.value)

\* The minimum key of a node as the specification defines it: the key of
\* the first entry of a leaf, the minimum key of the first child of an
\* internal node.
RECURSIVE FirstKey(_)
FirstKey(n) ==
    IF n.kind = "Leaf" THEN n.data[1].key ELSE FirstKey(n.nodes[1].value)

RECURSIVE RcFirstKey(_)
RcFirstKey(n) ==
    IF n.kind = "Leaf" THEN n.data[1].key ELSE RcFirstKey(n.data[1].value.node)

\* The root growth of unsafebplus in a step that inserts into a non-empty
\* tree; r is what the insert into the root's child returned.
RootGrowth(t, t2, r) ==
    /\ TreeHeight(t2) - TreeHeight(t) \in {0, 1}
    /\ (TreeHeight(t2) = TreeHeight(t) + 1) <=> (r.split # None)
    /\ r.split # None =>
          /\ t2.node.value.kind = "Internal"
          /\ Len(t2.node.value.nodes) = 2
          /\ [t2.node.value.nodes[1].value EXCEPT !.next = NULL]
                = [r.node EXCEPT !.next = NULL]
          /\ t2.node.value.nodes[2].value = r.split.value
          /\ t2.node.value.nodes[2].key = FirstKey(r.split.value)

\* The root growth of bplus, likewise.
RcRootGrowth(root, root2, r) ==
    /\ RcTreeHeight(root2) - RcTreeHeight(root) \in {0, 1}
    /\ (RcTreeHeight(root2) = RcTreeHeight(root) + 1) <=> (r.split # None)
    /\ r.split # None =>
          /\ root2.data.value.kind = "Internal"
          /\ Len(root2.data.value.data) = 2
          /\ root2.data.value.data[1].value.node = r.node
          /\ root2.data.value.data[2].value = r.split.value
          /\ root2.data.value.data[2].key = RcFirstKey(r.split.value.node)

\* C15 (root growth, both crates): an insert leaves the height as it is or
\* raises it by one; it raises it exactly when the root's child reports a
\* split, and the new top node then has two children, the old child first
\* and the new sibling second, keyed by the sibling's minimum key.  Stated
\* for capacity >= 1 and pairwise distinct keys, where it fails already.
C15_RootGrowth ==
    [][(Plain' /\ last'.op = "insert") =>
       IF tree.node = None
       THEN TreeHeight(tree') = 0 /\ RcTreeHeight(rnode') = 0
       ELSE /\ RootGrowth(tree, tree',
                          NodeInsert(tree.node.value, last'.key, last'.data,
                                     nextBuf))
            /\ RcRootGrowth(rnode, rnode',
                            RcNodeInsert(rnode.data.value,
                                         Record(last'.key, last'.data),
                                         nextRc))]_vars

\* The routing rule: the last pair whose key is <= key, the first pair when
\* there is none, as an index into nodes.
Routed(nodes, key) ==
    LET le == {i \in 1..Len(nodes) : nodes[i].key <= key}
    IN IF le = {} THEN 1 ELSE CHOOSE i \in le : \A j \in le : j <= i

\* C16 (one routing rule, unsafebplus): in every internal node of every
\* reachable tree, for every key, find_mut_node (insert) and find_node
\* (search and search_range) choose the same child: the last pair whose
\* separator is <= key, the first pair when no separator is.
C16_Routing ==
    \A n \in TreeNodes :
       n.kind = "Internal" =>
       \A key \in 0..(MaxKey + 1) :
          /\ FindMutNode(n.nodes, key) = Routed(n.nodes, key)
          /\ FindNode(n.nodes, key) = Routed(n.nodes, key)

\* C16 witness: an internal node of three children with two equal
\* separators, all of them above the smallest key.
C16_Witness ==
    \E n \in TreeNodes :
       /\ n.kind = "Internal"
       /\ Len(n.nodes) = 3
       /\ n.nodes[1].key > 1
       /\ \E i \in 1..2 : n.nodes[i].key = n.nodes[i + 1].key

\* The leaf bits in the slots of the buffer of internal node n, live slots
\* first, then the slots split_off vacated.
SlotBits(n) == BitsOf(n.nodes) \o n.spare

\* Every next held in a slot of n's buffer, live or vacated, is null, leads
\* to a buffer allocated earlier, or leads to a later slot of the same
\* buffer: following next never comes back.
NextAdvances(n) ==
    \A i \in 1..Len(SlotBits(n)) :
       SlotBits(n)[i].kind = "Leaf" =>
       \/ SlotBits(n)[i].next = NULL
       \/ SlotBits(n)[i].next.buf < n.buf
       \/ /\ SlotBits(n)[i].next.buf = n.buf
          /\ SlotBits(n)[i].next.idx > i

RECURSIVE ChildRangesOrdered(_)
ChildRangesOrdered(n) ==
    n.kind = "Internal" =>
    /\ \A i \in 1..(Len(n.nodes) - 1) :
          /\ \A k1 \in SubtreeKeys(n.nodes[i].value),
                k2 \in SubtreeKeys(n.nodes[i + 1].value) : k1 <= k2
          /\ \A k2 \in SubtreeKeys(n.nodes[i + 1].value) :
                k2 >= n.nodes[i + 1].key
    /\ \A i \in 1..Len(n.nodes) : ChildRangesOrdered(n.nodes[i].value)

\* C18 (ordered key ranges, unsafebplus): in every internal node, the keys
\* under child i are <= the keys under child i + 1, and the keys under child
\* i + 1 are >= its separator.  Stated for capacity >= 1 and pairwise
\* distinct keys, where it fails already.
C18_ChildRanges ==
    (Plain /\ tree.node # None) => ChildRangesOrdered(tree.node.value)

\* The entries of a sequence of leaves, concatenated.
RECURSIVE EntriesOf(_)
EntriesOf(leaves) ==
    IF leaves = <<>> THEN <<>>
    ELSE leaves[1].leaf.data \o EntriesOf(Tail(leaves))

\* C19 (no entry lost or duplicated, both crates): the entries stored in the
\* leaves the tree owns are the inserted pairs, each once.
C19_NoLoss ==
    /\ Len(EntriesOf(Leaves)) = Len(inserted)
    /\ Entries(EntriesOf(Leaves)) = Entries(inserted)
    /\ Len(EntriesOf(RcLeaves)) = Len(inserted)
    /\ Entries(EntriesOf(RcLeaves)) = Entries(inserted)

\* C19 witness: six inserts with a repeated key into trees whose leaves and
\* internal nodes have split.
C19_Witness ==
    /\ Len(inserted) = 6
    /\ ~DistinctKeys
    /\ tree.node.value.kind = "Internal"
    /\ tree.node.value.nodes[1].value.kind = "Internal"
    /\ rnode.data.value.data[1].value.node.kind = "Internal"

\* The depths at which the leaves under n lie, n being at depth d.
RECURSIVE LeafDepths(_, _)
LeafDepths(n, d) ==
    IF n.kind = "Leaf" THEN {d}
    ELSE UNION {LeafDepths(n.nodes[i].value, d + 1) : i \in 1..Len(n.nodes)}

RECURSIVE RcLeafDepths(_, _)
RcLeafDepths(n, d) ==
    IF n.kind = "Leaf" THEN {d}
    ELSE UNION {RcLeafDepths(n.data[i].value.node, d + 1) : i \in 1..Len(n.data)}

\* C20 (balance, both crates): all leaves lie at the same depth, and the
\* children of an internal node are all leaves or all internal nodes.
C20_Balanced ==
    /\ tree.node # None => Cardinality(LeafDepths(tree.node.value, 0)) = 1
    /\ \A n \in TreeNodes :
          n.kind = "Internal" =>
          \A i, j \in 1..Len(n.nodes) :
             n.nodes[i].value.kind = n.nodes[j].value.kind
    /\ rnode.data # None => Cardinality(RcLeafDepths(rnode.data.value, 0)) = 1
    /\ \A n \in RcTreeNodes :
          n.kind = "Internal" =>
          \A i, j \in 1..Len(n.data) :
             n.data[i].value.node.kind = n.data[j].value.node.kind

\* C20 witness: trees of three levels, grown by two root splits.
C20_Witness ==
    /\ tree.node # None
    /\ LeafDepths(tree.node.value, 0) = {2}
    /\ rnode.data # None
    /\ RcLeafDepths(rnode.data.value, 0) = {2}
    /\ Len(Leaves) >= 4

\* C21 (no stale forward pointer, unsafebplus): after every insert, every
\* non-null next held by a leaf of the tree is the address at which a leaf
\* of the tree is stored now.  Stated for capacity >= 1 and pairwise
\* distinct keys, where it fails already.
C21_NoStaleNext ==
    Plain =>
    \A i \in 1..Len(Leaves) :
       \/ Leaves[i].leaf.next = NULL
       \/ Deref(tree, Leaves[i].leaf.next).state = "live"

\* The nesting, separators and leaf entries of an unsafebplus node.
RECURSIVE Shape(_)
Shape(n) ==
    IF n.kind = "Leaf" THEN [kind |-> "Leaf", data |-> n.data]
    ELSE [kind |-> "Internal",
          pairs |-> [i \in 1..Len(n.nodes) |->
                        [key |-> n.nodes[i].key,
                         value |-> Shape(n.nodes[i].value)]]]

\* The nesting, separators and leaf entries of a bplus node.
RECURSIVE RcShape(_)
RcShape(n) ==
    IF n.kind = "Leaf" THEN [kind |-> "Leaf", data |-> n.data]
    ELSE [kind |-> "Internal",
          pairs |-> [i \in 1..Len(n.data) |->
                        [key |-> n.data[i].key,
                         value |-> RcShape(n.data[i].value.node)]]]

\* C22 (the two crates agree on distinct keys): for the same capacity >= 1
\* and the same inserts with pairwise distinct keys, bplus and unsafebplus
\* hold the same tree after every insert: the same nesting, the same
\* separators in the same order, the same entries in each leaf.
C22_SameTree ==
    (Plain /\ tree.node # None) =>
    /\ rnode.data # None
    /\ RcShape(rnode.data.value) = Shape(tree.node.value)

\* C22 witness: five distinct keys, the fourth of them below all those
\* before it, in trees of three internal levels.
C22_Witness ==
    /\ Plain
    /\ Len(inserted) = 5
    /\ \A i \in 1..3 : inserted[4].key < inserted[i].key
    /\ Height(tree.node.value) = 3
    /\ RcHeight(rnode.data.value) = 3
====
